---- MODULE Spec2Model ----
(***************************************************************************)
(* Model of crates/toml_edit/src/document.rs: the immutable document       *)
(* (ImDocument<S>), the mutable document (Document), the one-way           *)
(* conversion into_mut() and the detachment step despan().                 *)
(*                                                                         *)
(* The parser, the element tree (Item / Table), span text (RawString) and  *)
(* the renderer live in other files of the crate; they are modelled from   *)
(* their description in the specification, over a small TOML subset.       *)
(***************************************************************************)
EXTENDS Integers, Sequences, FiniteSets, TLC

VARIABLES
  src,    \* the source text the caller holds
  im,     \* the caller's ImDocument, or NoDoc
  doc,    \* the caller's Document, or NoDoc
  tbl,    \* the caller's Table value, or NoTable
  ret,    \* the Result returned by the last parse / from_str call
  panic,  \* the panic the program died with, or NoPanic
  last,   \* the operation performed last
  log     \* the despan calls made on the Document doc holds

vars == <<src, im, doc, tbl, ret, panic, last, log>>

(***************************************************************************)
(* Bounds.                                                                 *)
(***************************************************************************)
\* longest source text, counted in chunks of Chunks
MaxChunks == 2

(***************************************************************************)
(* Source texts: sequences of one-character strings.                       *)
(***************************************************************************)
Chunks ==
  { <<"a", " ", "=", " ", "1", "\n">>,
    <<"b", "=", "2", "\n">>,
    <<"a", "=", "{", "b", " ", "=", " ", "1", "}", "\n">>,
    <<"b", "=", "{", "a", "=", "{", "b", "=", "2", "}", "}", "\n">>,
    <<"#", " ", "t", "r", "a", "i", "l", "i", "n", "g", " ",
      "c", "o", "m", "m", "e", "n", "t", "\n">>,
    <<"a", "=">> }

RECURSIVE Texts(_)
Texts(n) ==
  IF n = 0 THEN { <<>> }
  ELSE LET p == Texts(n - 1) IN p \cup { t \o c : t \in p, c \in Chunks }

Sources == Texts(MaxChunks)

\* the source texts of the runs that go on to edit the document
ShortSources == Texts(MaxChunks - 1)

KeyChars == {"a", "b"}
Digits   == {"1", "2"}

(***************************************************************************)
(* Span text (RawString): a byte range into a source buffer, or owned text.*)
(***************************************************************************)
Explicit(t)   == [tag |-> "Explicit", text |-> t]
Spanned(s, e) == [tag |-> "Spanned", start |-> s, end |-> e]
RawString_default == Explicit(<<>>)

\* the span of the characters i .. j-1 (1-based); an empty span is empty text
RawString_with_span(i, j) ==
  IF i = j THEN RawString_default ELSE Spanned(i - 1, j - 1)

IsSpanned(r) == r.tag = "Spanned"

\* the text a span text stands for, given the buffer its spans refer to
RawString_to_str(r, buf) ==
  IF IsSpanned(r) THEN SubSeq(buf, r.start + 1, r.end) ELSE r.text

\* detach: a reference is resolved against buf and replaced by an owned copy
RawString_despan(r, buf) ==
  IF IsSpanned(r) THEN Explicit(SubSeq(buf, r.start + 1, r.end)) ELSE r

(***************************************************************************)
(* Element tree (Item).  A table entry carries the key name, the key's     *)
(* span texts (prefix, repr, suffix) and the value item.                   *)
(***************************************************************************)
NoPos == -1

ItemNone == [kind |-> "None"]
ItemValue(prefix, repr) == [kind |-> "Value", prefix |-> prefix, repr |-> repr]
ItemInline(prefix, entries) ==
  [kind |-> "InlineTable", prefix |-> prefix, entries |-> entries]
ItemTable(t) == [kind |-> "Table", pos |-> t.pos, entries |-> t.entries]

Table_with_pos(p) == [pos |-> p, entries |-> <<>>]
Table_new == Table_with_pos(NoPos)

Entry(key, prefix, repr, suffix, value) ==
  [key |-> key, prefix |-> prefix, repr |-> repr, suffix |-> suffix,
   value |-> value]

\* Item::as_table / Item::as_table_mut: the table of a table item, or None
Item_as_table(item) ==
  IF item.kind = "Table"
  THEN [some |-> TRUE, table |-> [pos |-> item.pos, entries |-> item.entries]]
  ELSE [some |-> FALSE]

\* Table::iter: the keys in insertion order
Table_iter(t) == [i \in 1..Len(t.entries) |-> t.entries[i].key]

(***************************************************************************)
(* Parser (parse_document) over the subset                                 *)
(*   document := { decor keyval "\n" } decor                               *)
(*   keyval   := key ws "=" ws value                                       *)
(*   value    := digit | "{" ws keyval "}"                                 *)
(*   decor    := { " " | "\n" | "#" ... "\n" }                             *)
(* Every span text of the tree it builds is a byte range of the source.    *)
(***************************************************************************)
RECURSIVE SkipWs(_, _)
SkipWs(s, i) ==
  IF i <= Len(s) /\ s[i] = " " THEN SkipWs(s, i + 1) ELSE i

RECURSIVE SkipToEol(_, _)
SkipToEol(s, i) ==
  IF i > Len(s) THEN i
  ELSE IF s[i] = "\n" THEN i + 1
  ELSE SkipToEol(s, i + 1)

RECURSIVE SkipDecor(_, _)
SkipDecor(s, i) ==
  IF i > Len(s) THEN i
  ELSE IF s[i] \in {" ", "\n"} THEN SkipDecor(s, i + 1)
  ELSE IF s[i] = "#" THEN SkipDecor(s, SkipToEol(s, i))
  ELSE i

NoErr == [kind |-> "NoErr"]
TomlError(at) == [kind |-> "TomlError", at |-> at]
ParseFail(at) == [ok |-> FALSE, err |-> TomlError(at)]

RECURSIVE ParseKeyval(_, _, _)

\* "{" ws keyval "}" at s[i], once its key/value pair kv has been parsed
InlineTableOf(s, prefix, kv) ==
  IF ~kv.ok THEN kv
  ELSE IF kv.next <= Len(s) /\ s[kv.next] = "}"
  THEN [ok |-> TRUE, next |-> kv.next + 1,
        item |-> ItemInline(prefix, <<kv.entry>>)]
  ELSE ParseFail(kv.next - 1)

\* "{" at s[i], its key at s[j]
InlineTableAt(s, i, j, prefix) ==
  InlineTableOf(s, prefix, ParseKeyval(s, j, RawString_with_span(i + 1, j)))

\* a value at s[i], with the decor before it
ParseValue(s, i, prefix) ==
  IF i > Len(s) THEN ParseFail(i - 1)
  ELSE IF s[i] \in Digits
  THEN [ok |-> TRUE, next |-> i + 1,
        item |-> ItemValue(prefix, RawString_with_span(i, i + 1))]
  ELSE IF s[i] = "{" THEN InlineTableAt(s, i, SkipWs(s, i + 1), prefix)
  ELSE ParseFail(i - 1)

\* the key at s[i] and "=" at s[j], once the value v has been parsed
KeyvalOf(s, i, j, prefix, v) ==
  IF ~v.ok THEN v
  ELSE [ok |-> TRUE, next |-> v.next,
        entry |-> Entry(s[i], prefix,
                        RawString_with_span(i, i + 1),
                        RawString_with_span(i + 1, j),
                        v.item)]

\* the key at s[i], what follows its whitespace at s[j], the value at s[k]
KeyvalAt(s, i, j, k, prefix) ==
  IF j > Len(s) \/ s[j] # "=" THEN ParseFail(j - 1)
  ELSE KeyvalOf(s, i, j, prefix,
                ParseValue(s, k, RawString_with_span(j + 1, k)))

\* key ws "=" ws value at s[i], with the decor before the key
ParseKeyval(s, i, prefix) ==
  IF i > Len(s) \/ s[i] \notin KeyChars THEN ParseFail(i - 1)
  ELSE KeyvalAt(s, i, SkipWs(s, i + 1), SkipWs(s, SkipWs(s, i + 1) + 1),
                prefix)

RECURSIVE ParseLines(_, _, _)

\* the lines from s[j] on, once the key/value pair kv at s[j] has been parsed
LinesOf(s, j, entries, kv) ==
  IF ~kv.ok THEN kv
  ELSE IF \E n \in 1..Len(entries) : entries[n].key = kv.entry.key
  THEN ParseFail(j - 1)
  ELSE IF kv.next > Len(s)
  THEN [ok |-> TRUE, entries |-> Append(entries, kv.entry),
        trailing |-> RawString_default]
  ELSE IF s[kv.next] = "\n"
  THEN ParseLines(s, kv.next + 1, Append(entries, kv.entry))
  ELSE ParseFail(kv.next - 1)

\* the lines from s[i] on, the decor at s[i] ending before s[j]
LinesAt(s, i, j, entries) ==
  IF j > Len(s)
  THEN [ok |-> TRUE, entries |-> entries,
        trailing |-> RawString_with_span(i, j)]
  ELSE LinesOf(s, j, entries, ParseKeyval(s, j, RawString_with_span(i, j)))

\* the lines of the document from s[i] on, after the entries parsed so far
ParseLines(s, i, entries) == LinesAt(s, i, SkipDecor(s, i), entries)

\* the source buffer S of an ImDocument<S>: how it is held, and its text
Borrowed(t) == [mode |-> "borrowed", text |-> t]
Owned(t)    == [mode |-> "owned", text |-> t]

\* Result<_, TomlError>, and the absence of a document or of a result
NoDoc == [kind |-> "NoDoc"]
Ok(v)  == [tag |-> "Ok", value |-> v, err |-> NoErr]
Err(e) == [tag |-> "Err", value |-> NoDoc, err |-> e]
NoRet  == [tag |-> "None", value |-> NoDoc, err |-> NoErr]

\* the ImDocument built from a parse p of the text of raw
DocumentOf(raw, p) ==
  IF p.ok
  THEN Ok([root |-> ItemTable([pos |-> 0, entries |-> p.entries]),
           trailing |-> p.trailing,
           raw |-> raw])
  ELSE Err(p.err)

\* parser::parse_document(raw): Ok(ImDocument) or Err(TomlError)
parse_document(raw) == DocumentOf(raw, ParseLines(raw.text, 1, <<>>))

(***************************************************************************)
(* Item::despan: one pass over the tree, detaching every span text against *)
(* buf.  The walk returns the detached item together with the visits it    *)
(* made: the path of each span text it detached and the buffer it used.    *)
(* Paths: <<0>> is the trailing span; below an item at path p, p \o <<1>>  *)
(* is its prefix, p \o <<2>> its repr, p \o <<10 + n>> its n-th entry;     *)
(* below an entry at path q, q \o <<1>>, q \o <<2>>, q \o <<3>> are the key's*)
(* prefix, repr and suffix and q \o <<4>> is the value item.               *)
(***************************************************************************)
Visit(path, buf) == [leaf |-> path, buf |-> buf]

RECURSIVE Item_despan(_, _, _)
RECURSIVE Entries_despan(_, _, _, _)

\* an inline table with its prefix detached and its entries walked as es
InlineDespanned(prefix, visit, es) ==
  [item |-> ItemInline(prefix, es.entries), visits |-> <<visit>> \o es.visits]

\* a table with its entries walked as es
TableDespanned(pos, es) ==
  [item |-> [kind |-> "Table", pos |-> pos, entries |-> es.entries],
   visits |-> es.visits]

Item_despan(item, buf, path) ==
  IF item.kind = "None" THEN [item |-> item, visits |-> <<>>]
  ELSE IF item.kind = "Value"
  THEN [item |-> ItemValue(RawString_despan(item.prefix, buf),
                           RawString_despan(item.repr, buf)),
        visits |-> <<Visit(path \o <<1>>, buf), Visit(path \o <<2>>, buf)>>]
  ELSE IF item.kind = "InlineTable"
  THEN InlineDespanned(RawString_despan(item.prefix, buf),
                       Visit(path \o <<1>>, buf),
                       Entries_despan(item.entries, 1, buf, path))
  ELSE TableDespanned(item.pos, Entries_despan(item.entries, 1, buf, path))

\* the entry e at path q with its key detached, its value walked as v, put
\* before the entries walked as rest
EntryDespanned(e, buf, q, v, rest) ==
  [entries |-> <<Entry(e.key,
                       RawString_despan(e.prefix, buf),
                       RawString_despan(e.repr, buf),
                       RawString_despan(e.suffix, buf),
                       v.item)>> \o rest.entries,
   visits |-> <<Visit(q \o <<1>>, buf), Visit(q \o <<2>>, buf),
                Visit(q \o <<3>>, buf)>> \o v.visits \o rest.visits]

\* the entries n, n+1, ... of a table at path
Entries_despan(entries, n, buf, path) ==
  IF n > Len(entries) THEN [entries |-> <<>>, visits |-> <<>>]
  ELSE EntryDespanned(entries[n], buf, path \o <<10 + n>>,
                      Item_despan(entries[n].value, buf,
                                  path \o <<10 + n, 4>>),
                      Entries_despan(entries, n + 1, buf, path))

(***************************************************************************)
(* Table API used by callers (insert, remove), and the renderer.           *)
(***************************************************************************)
RECURSIVE Table_position(_, _, _)
Table_position(entries, key, n) ==
  IF n > Len(entries) THEN 0
  ELSE IF entries[n].key = key THEN n
  ELSE Table_position(entries, key, n + 1)

Table_insert(t, key, item) ==
  LET n == Table_position(t.entries, key, 1)
  IN IF n = 0
     THEN [t EXCEPT !.entries =
             Append(@, Entry(key, RawString_default, Explicit(<<key>>),
                             RawString_default, item))]
     ELSE [t EXCEPT !.entries[n].value = item]

Table_remove(t, key) ==
  LET n == Table_position(t.entries, key, 1)
  IN IF n = 0 THEN t
     ELSE [t EXCEPT !.entries =
             SubSeq(@, 1, n - 1) \o SubSeq(@, n + 1, Len(@))]

\* a span text as rendered: a span is read from input when there is one
RawString_encode(r, input) ==
  IF ~IsSpanned(r) THEN r.text
  ELSE IF input.some THEN SubSeq(input.text, r.start + 1, r.end)
  ELSE <<>>

RECURSIVE Item_encode(_, _)
RECURSIVE Entries_encode(_, _, _, _)

Item_encode(item, input) ==
  IF item.kind = "None" THEN <<>>
  ELSE IF item.kind = "Value"
  THEN RawString_encode(item.prefix, input) \o RawString_encode(item.repr, input)
  ELSE IF item.kind = "InlineTable"
  THEN RawString_encode(item.prefix, input) \o <<"{">>
         \o Entries_encode(item.entries, 1, input, <<>>) \o <<"}">>
  ELSE Entries_encode(item.entries, 1, input, <<"\n">>)

Entries_encode(entries, n, input, sep) ==
  IF n > Len(entries) THEN <<>>
  ELSE LET e == entries[n]
       IN RawString_encode(e.prefix, input) \o RawString_encode(e.repr, input)
            \o RawString_encode(e.suffix, input) \o <<"=">>
            \o Item_encode(e.value, input) \o sep
            \o Entries_encode(entries, n + 1, input, sep)

\* impl Display for Document
Document_to_string(d) ==
  Item_encode(d.root, d.raw) \o RawString_encode(d.trailing, d.raw)

(***************************************************************************)
(* document.rs                                                             *)
(***************************************************************************)
None    == [some |-> FALSE]
Some(t) == [some |-> TRUE, text |-> t]

NoTable == [kind |-> "NoTable"]

NoPanic      == "none"
RootNotTable == "root should always be a table"
UnwrapNone   == "called Option::unwrap() on a None value"
UnwrapErr    == "called Result::unwrap() on an Err value"

\* impl Default for ImDocument<&str> (static)
ImDocument_default ==
  [root |-> ItemTable(Table_with_pos(0)),
   trailing |-> RawString_default,
   raw |-> Borrowed(<<>>)]

\* ImDocument::new
ImDocument_new == ImDocument_default

\* ImDocument::parse
ImDocument_parse(raw) == parse_document(raw)

\* ImDocument::as_item
ImDocument_as_item(d) == d.root

\* ImDocument::as_table: the root table, or the panic of expect()
ImDocument_as_table(d) ==
  LET t == Item_as_table(d.root)
  IN IF t.some THEN [panic |-> NoPanic, table |-> t.table]
     ELSE [panic |-> RootNotTable]

\* ImDocument::iter
ImDocument_iter(d) ==
  LET t == ImDocument_as_table(d)
  IN IF t.panic = NoPanic
     THEN [panic |-> NoPanic, keys |-> Table_iter(t.table)]
     ELSE [panic |-> t.panic]

\* ImDocument::trailing
ImDocument_trailing(d) == d.trailing

\* variant: raw() hands out the trailing text instead of the source
ImDocument_raw_of_trailing(d) == RawString_to_str(d.trailing, d.raw.text)

\* ImDocument::raw
ImDocument_raw(d) == d.raw.text

\* variant: the trailing span is not carried over
into_spanned_document_drops_trailing(d) ==
  [root |-> d.root, trailing |-> RawString_default, raw |-> Some(d.raw.text)]

\* variant: the source buffer is not retained
into_spanned_document_drops_raw(d) ==
  [root |-> d.root, trailing |-> d.trailing, raw |-> [some |-> FALSE]]

\* ImDocument::into_spanned_document
into_spanned_document(d) ==
  [root |-> d.root, trailing |-> d.trailing, raw |-> Some(d.raw.text)]

\* the result of despan on d, its root walked as r: the detached document
\* and the call as it is recorded in log
Despanned(d, r) ==
  [panic |-> NoPanic,
   doc |-> [root |-> r.item,
            trailing |-> RawString_despan(d.trailing, d.raw.text),
            raw |-> d.raw],
   call |-> [raw |-> d.raw,
             visits |-> r.visits \o <<Visit(<<0>>, d.raw.text)>>]]

\* variant of Despanned for despan_skips_trailing
Despanned_root_only(d, r) ==
  [panic |-> NoPanic,
   doc |-> [root |-> r.item, trailing |-> d.trailing, raw |-> d.raw],
   call |-> [raw |-> d.raw, visits |-> r.visits]]

\* variant: the walk leaves the trailing span out
despan_skips_trailing(d) ==
  IF ~d.raw.some
  THEN [panic |-> UnwrapNone, doc |-> d,
        call |-> [raw |-> d.raw, visits |-> <<>>]]
  ELSE Despanned_root_only(d, Item_despan(d.root, d.raw.text, <<>>))

\* Document::despan: root and trailing detached against the retained
\* buffer, or the panic of unwrap() when the buffer is absent
despan(d) ==
  IF ~d.raw.some
  THEN [panic |-> UnwrapNone, doc |-> d,
        call |-> [raw |-> d.raw, visits |-> <<>>]]
  ELSE Despanned(d, Item_despan(d.root, d.raw.text, <<>>))

\* what into_mut returns after the despan call m
Converted(m) == [panic |-> m.panic, doc |-> m.doc, calls |-> <<m.call>>]

\* ImDocument::into_mut
into_mut(d) == Converted(despan(into_spanned_document(d)))

\* impl FromStr for ImDocument<String>
ImDocument_from_str(s) == ImDocument_parse(Owned(s))

\* impl Deref for ImDocument<S>
ImDocument_deref(d) == ImDocument_as_table(d)

\* variant: the root table is made without a position
Document_default_without_pos ==
  [root |-> ItemTable(Table_new),
   trailing |-> RawString_default,
   raw |-> None]

\* impl Default for Document
Document_default ==
  [root |-> ItemTable(Table_with_pos(0)),
   trailing |-> RawString_default,
   raw |-> None]

\* Document::new
Document_new == Document_default

\* Document::as_item
Document_as_item(d) == d.root

\* Document::as_item_mut, with the item the caller stores through it
Document_as_item_mut(d, item) == [d EXCEPT !.root = item]

\* Document::as_table
Document_as_table(d) ==
  LET t == Item_as_table(d.root)
  IN IF t.some THEN [panic |-> NoPanic, table |-> t.table]
     ELSE [panic |-> RootNotTable]

\* Document::as_table_mut, with the table the caller leaves behind it
Document_as_table_mut(d, t) ==
  IF Item_as_table(d.root).some
  THEN [panic |-> NoPanic, doc |-> [d EXCEPT !.root = ItemTable(t)]]
  ELSE [panic |-> RootNotTable, doc |-> d]

\* Document::iter
Document_iter(d) ==
  LET t == Document_as_table(d)
  IN IF t.panic = NoPanic
     THEN [panic |-> NoPanic, keys |-> Table_iter(t.table)]
     ELSE [panic |-> t.panic]

\* variant: setting the trailing span forgets the retained buffer
set_trailing_drops_raw(d, trailing) ==
  [d EXCEPT !.trailing = trailing, !.raw = None]

\* Document::set_trailing
set_trailing(d, trailing) == [d EXCEPT !.trailing = trailing]

\* Document::trailing
Document_trailing(d) == d.trailing

\* Ok(im.into_mut()), m being what into_mut returned
FromStrOk(m) == [result |-> Ok(m.doc), panic |-> m.panic, calls |-> m.calls]

\* let im = r?; Ok(im.into_mut())
FromStrOf(r) ==
  IF r.tag = "Err"
  THEN [result |-> Err(r.err), panic |-> NoPanic, calls |-> <<>>]
  ELSE FromStrOk(into_mut(r.value))

\* variant of FromStrOf for Document_from_str_ignores_error
FromStrOf_ignores_error(r) ==
  IF r.tag = "Err" THEN FromStrOk(into_mut(ImDocument_default))
  ELSE FromStrOk(into_mut(r.value))

\* variant: a parse error is replaced by the empty document
Document_from_str_ignores_error(s) ==
  FromStrOf_ignores_error(ImDocument_from_str(s))

\* impl FromStr for Document
Document_from_str(s) == FromStrOf(ImDocument_from_str(s))

\* impl Deref for Document
Document_deref(d) == Document_as_table(d)

\* impl DerefMut for Document
Document_deref_mut(d, t) == Document_as_table_mut(d, t)

\* variant: the table handed in is dropped
Document_from_drops_root(root) == Document_default

\* impl From<Table> for Document
Document_from(root) == [Document_default EXCEPT !.root = ItemTable(root)]

(***************************************************************************)
(* The program: a caller holding a source text and binding at most one    *)
(* ImDocument, one Document and one Table, then calling the public         *)
(* operations on them in any order.  into_mut() moves the ImDocument out   *)
(* of its binding.  A panic ends the program.                              *)
(***************************************************************************)
\* the binding of a value that was moved out
Moved == [kind |-> "Moved"]

ImLive == im \notin {NoDoc, Moved}
Init ==
  /\ src \in ShortSources
  /\ im = NoDoc
  /\ doc = NoDoc
  /\ tbl = NoTable
  /\ ret = NoRet
  /\ panic = NoPanic
  /\ last = "start"
  /\ log = <<>>

\* let im = ImDocument::new();
NewIm ==
  /\ panic = NoPanic
  /\ im = NoDoc
  /\ im' = ImDocument_new
  /\ last' = "ImDocument::new"
  /\ UNCHANGED <<src, doc, tbl, ret, panic, log>>

\* let im = r?;
BindIm(r) ==
  /\ ret' = r
  /\ im' = IF r.tag = "Ok" THEN r.value ELSE im

\* let im = ImDocument::parse(src)?;   (the buffer is borrowed)
ParseIm ==
  /\ panic = NoPanic
  /\ im = NoDoc
  /\ BindIm(ImDocument_parse(Borrowed(src)))
  /\ last' = "ImDocument::parse"
  /\ UNCHANGED <<src, doc, tbl, panic, log>>

\* let im: ImDocument<String> = src.parse()?;
FromStrIm ==
  /\ panic = NoPanic
  /\ im = NoDoc
  /\ BindIm(ImDocument_from_str(src))
  /\ last' = "ImDocument::from_str"
  /\ UNCHANGED <<src, doc, tbl, panic, log>>

\* let doc = m;   m being what into_mut returned
BindConverted(m) ==
  /\ panic' = m.panic
  /\ doc' = m.doc
  /\ log' = m.calls

\* let doc = im.into_mut();   (im is moved)
IntoMut ==
  /\ panic = NoPanic
  /\ ImLive
  /\ doc = NoDoc
  /\ BindConverted(into_mut(im))
  /\ im' = Moved
  /\ last' = "into_mut"
  /\ UNCHANGED <<src, tbl, ret>>

\* let doc = Document::new();
NewDoc ==
  /\ panic = NoPanic
  /\ doc = NoDoc
  /\ doc' = Document_new
  /\ log' = <<>>
  /\ last' = "Document::new"
  /\ UNCHANGED <<src, im, tbl, ret, panic>>

\* let doc = r?;   r being what Document::from_str returned
BindDoc(r) ==
  /\ ret' = r.result
  /\ panic' = r.panic
  /\ doc' = IF r.result.tag = "Ok" THEN r.result.value ELSE doc
  /\ log' = IF r.result.tag = "Ok" THEN r.calls ELSE log

\* let doc: Document = src.parse()?;
FromStrDoc ==
  /\ panic = NoPanic
  /\ doc = NoDoc
  /\ BindDoc(Document_from_str(src))
  /\ last' = "Document::from_str"
  /\ UNCHANGED <<src, im, tbl>>

\* let doc = Document::from(tbl);
FromTable ==
  /\ panic = NoPanic
  /\ tbl # NoTable
  /\ doc = NoDoc
  /\ doc' = Document_from(tbl)
  /\ log' = <<>>
  /\ last' = "Document::from"
  /\ UNCHANGED <<src, im, tbl, ret, panic>>

\* let tbl = Table::new();
NewTable ==
  /\ panic = NoPanic
  /\ tbl = NoTable
  /\ tbl' = Table_new
  /\ last' = "Table::new"
  /\ UNCHANGED <<src, im, doc, ret, panic, log>>

\* let tbl = im.as_table().clone();   or through Deref, (*im).clone()
CloneImTable ==
  /\ panic = NoPanic
  /\ ImLive
  /\ tbl = NoTable
  /\ \E t \in {ImDocument_as_table(im), ImDocument_deref(im)} :
        /\ panic' = t.panic
        /\ tbl' = IF t.panic = NoPanic THEN t.table ELSE tbl
  /\ last' = "ImDocument::as_table"
  /\ UNCHANGED <<src, im, doc, ret, log>>

\* doc.as_table(), doc.iter(), or a table method through Deref
ReadDoc ==
  /\ panic = NoPanic
  /\ doc # NoDoc
  /\ \E t \in {Document_as_table(doc), Document_iter(doc),
                Document_deref(doc)} :
        panic' = t.panic
  /\ last' = "Document::as_table"
  /\ UNCHANGED <<src, im, doc, tbl, ret, log>>

\* the span texts a caller can pass to set_trailing: text of its own, or a
\* copy of im.trailing()
TrailingInputs ==
  {RawString_default, Explicit(<<"\n">>)}
    \cup (IF ImLive THEN {ImDocument_trailing(im)} ELSE {})

\* doc.set_trailing(t);
SetTrailing ==
  /\ panic = NoPanic
  /\ doc # NoDoc
  /\ \E t \in TrailingInputs : doc' = set_trailing(doc, t)
  /\ last' = "set_trailing"
  /\ UNCHANGED <<src, im, tbl, ret, panic, log>>

\* the items a caller can store through as_item_mut
ItemInputs ==
  {ItemNone, ItemValue(RawString_default, Explicit(<<"1">>))}
    \cup (IF tbl # NoTable THEN {ItemTable(tbl)} ELSE {})

\* *doc.as_item_mut() = item;
WriteItem ==
  /\ panic = NoPanic
  /\ doc # NoDoc
  /\ \E item \in ItemInputs : doc' = Document_as_item_mut(doc, item)
  /\ last' = "as_item_mut"
  /\ UNCHANGED <<src, im, tbl, ret, panic, log>>

\* the tables a caller can leave behind a &mut Table to t: an entry
\* inserted or removed, or the whole table assigned
TableWrites(t) ==
  { Table_insert(t, k, ItemValue(RawString_default, Explicit(<<"2">>))) :
      k \in KeyChars }
    \cup { Table_remove(t, k) : k \in KeyChars }
    \cup (IF tbl # NoTable THEN {tbl} ELSE {})

\* the root table as the caller sees it before it writes
RootOr(d, t) == IF d.root.kind = "Table" THEN Item_as_table(d.root).table ELSE t

\* doc.as_table_mut().insert(k, v);   or doc.insert(k, v) through DerefMut
WriteTable ==
  /\ panic = NoPanic
  /\ doc # NoDoc
  /\ \E t \in TableWrites(RootOr(doc, Table_new)) :
      \E w \in {Document_as_table_mut(doc, t), Document_deref_mut(doc, t)} :
        /\ panic' = w.panic
        /\ doc' = w.doc
  /\ last' = "as_table_mut"
  /\ UNCHANGED <<src, im, tbl, ret, log>>

\* r.unwrap();   r being what Document::from_str returned
Unwrap(r) ==
  /\ ret' = r.result
  /\ panic' = IF r.panic # NoPanic THEN r.panic
              ELSE IF r.result.tag = "Err" THEN UnwrapErr
              ELSE NoPanic

\* #[test] default_roundtrip, a program of its own:
\*   Document::default().to_string().parse::<Document>().unwrap();
default_roundtrip ==
  /\ panic = NoPanic
  /\ last = "start"
  /\ Unwrap(Document_from_str(Document_to_string(Document_default)))
  /\ last' = "default_roundtrip"
  /\ UNCHANGED <<src, im, doc, tbl, log>>

Next ==
  \/ NewIm
  \/ ParseIm
  \/ FromStrIm
  \/ IntoMut
  \/ NewDoc
  \/ FromStrDoc
  \/ FromTable
  \/ NewTable
  \/ CloneImTable
  \/ ReadDoc
  \/ SetTrailing
  \/ WriteItem
  \/ WriteTable
  \/ default_roundtrip

Spec == Init /\ [][Next]_vars

(***************************************************************************)
(* The parse and conversion paths alone, over every source text.           *)
(***************************************************************************)
ParseInit ==
  /\ src \in Sources
  /\ im = NoDoc
  /\ doc = NoDoc
  /\ tbl = NoTable
  /\ ret = NoRet
  /\ panic = NoPanic
  /\ last = "start"
  /\ log = <<>>

ParseNext ==
  \/ NewIm
  \/ ParseIm
  \/ FromStrIm
  \/ IntoMut
  \/ NewDoc
  \/ FromStrDoc
  \/ default_roundtrip

ParseSpec == ParseInit /\ [][ParseNext]_vars

(***************************************************************************)
(* Observations used by the properties.                                    *)
(***************************************************************************)
\* the paths of the span texts of an item at path p
RECURSIVE LeafPaths(_, _)
LeafPaths(item, p) ==
  LET OfEntry(n) ==
        LET q == p \o <<10 + n>>
        IN {q \o <<1>>, q \o <<2>>, q \o <<3>>}
             \cup LeafPaths(item.entries[n].value, q \o <<4>>)
  IN CASE item.kind = "None"  -> {}
       [] item.kind = "Value" -> {p \o <<1>>, p \o <<2>>}
       [] item.kind = "InlineTable" ->
            {p \o <<1>>} \cup UNION { OfEntry(n) : n \in 1..Len(item.entries) }
       [] item.kind = "Table" ->
            UNION { OfEntry(n) : n \in 1..Len(item.entries) }

\* the span text of item at path
RECURSIVE LeafAt(_, _)
LeafAt(item, path) ==
  LET h == Head(path)
  IN IF h = 1 THEN item.prefix
     ELSE IF h = 2 THEN item.repr
     ELSE LET e == item.entries[h - 10]
              f == Head(Tail(path))
          IN IF f = 1 THEN e.prefix
             ELSE IF f = 2 THEN e.repr
             ELSE IF f = 3 THEN e.suffix
             ELSE LeafAt(e.value, Tail(Tail(path)))

\* the tree with its span texts left out: kinds, positions, keys, nesting
RECURSIVE Shape(_)
Shape(item) ==
  CASE item.kind \in {"None", "Value"} -> <<item.kind>>
    [] item.kind = "InlineTable" ->
         <<item.kind,
           [n \in 1..Len(item.entries) |->
              <<item.entries[n].key, Shape(item.entries[n].value)>>]>>
    [] item.kind = "Table" ->
         <<item.kind, item.pos,
           [n \in 1..Len(item.entries) |->
              <<item.entries[n].key, Shape(item.entries[n].value)>>]>>

\* no span text of the document is a byte range
Detached(d) ==
  /\ \A p \in LeafPaths(d.root, <<>>) : ~IsSpanned(LeafAt(d.root, p))
  /\ ~IsSpanned(d.trailing)

\* the source text is in the grammar
IsValid(s) == ParseLines(s, 1, <<>>).ok

EmptyRootAt0 == [kind |-> "Table", pos |-> 0, entries |-> <<>>]

ExampleText ==
  <<"a", " ", "=", " ", "1", "\n">> \o
  <<"#", " ", "t", "r", "a", "i", "l", "i", "n", "g", " ",
    "c", "o", "m", "m", "e", "n", "t", "\n">>

(***************************************************************************)
(* Properties.                                                             *)
(***************************************************************************)

\* C1: in every reachable state the root of the ImDocument and of the
\* Document is the table variant, and no operation has died with
\* "root should always be a table".
C1_RootAlwaysTable ==
  /\ ImLive => im.root.kind = "Table"
  /\ doc # NoDoc => doc.root.kind = "Table"
  /\ panic # RootNotTable

\* C2: after into_mut() (alone or inside Document::from_str) every span
\* text of the root tree, at every depth, and the trailing span are owned
\* text, and the one despan call visited each of them exactly once, against
\* the buffer the Document retains.
C2_IntoMutDetachesEveryLeaf ==
  (last \in {"into_mut", "Document::from_str"} /\ doc # NoDoc) =>
    /\ panic = NoPanic
    /\ Detached(doc)
    /\ Len(log) = 1
    /\ doc.raw.some
    /\ log[1].raw = doc.raw
    /\ LET v      == log[1].visits
           leaves == LeafPaths(doc.root, <<>>) \cup {<<0>>}
       IN /\ \A i \in 1..Len(v) : v[i].buf = doc.raw.text /\ v[i].leaf \in leaves
          /\ \A p \in leaves :
               Cardinality({i \in 1..Len(v) : v[i].leaf = p}) = 1

\* a nested document with trailing text has been converted
C2_Witness ==
  /\ last = "into_mut"
  /\ panic = NoPanic
  /\ doc # NoDoc
  /\ doc.trailing.text # <<>>
  /\ \E p \in LeafPaths(doc.root, <<>>) : Len(p) > 4

\* C3: into_mut() keeps the top-level keys and their order, the shape of the
\* tree, and the text of every span text and of the trailing span as
\* resolved against the source; the example text keeps key a, value 1 and
\* its trailing comment.
C3_IntoMutPreservesContent ==
  [][ (last' = "into_mut") =>
        /\ panic' = NoPanic
        /\ Document_iter(doc').keys = ImDocument_iter(im).keys
        /\ Shape(doc'.root) = Shape(im.root)
        /\ LeafPaths(doc'.root, <<>>) = LeafPaths(im.root, <<>>)
        /\ \A p \in LeafPaths(im.root, <<>>) :
              RawString_to_str(LeafAt(doc'.root, p), ImDocument_raw(im))
                = RawString_to_str(LeafAt(im.root, p), ImDocument_raw(im))
        /\ RawString_to_str(Document_trailing(doc'), ImDocument_raw(im))
              = RawString_to_str(ImDocument_trailing(im), ImDocument_raw(im))
        /\ ImDocument_raw(im) = ExampleText =>
              /\ Document_iter(doc').keys = <<"a">>
              /\ doc'.root.entries[1].value.repr = Explicit(<<"1">>)
              /\ doc'.trailing = Explicit(SubSeq(ExampleText, 7, 25))
    ]_vars

\* the example text has been parsed and converted
C3_Witness ==
  /\ last = "into_mut"
  /\ src = ExampleText
  /\ doc # NoDoc
  /\ doc.raw = Some(ExampleText)
  /\ Document_iter(doc).keys = <<"a">>

\* C4: despan runs at most once on a Document, only as a step of into_mut()
\* (alone or inside Document::from_str), never on a Document without a
\* retained buffer, and its unwrap never fails.
C4_DespanOnceOnlyInIntoMut ==
  [][ /\ Len(log') <= 1
      /\ \A i \in 1..Len(log') : log'[i].raw.some
      /\ panic' # UnwrapNone
      /\ (doc' # NoDoc /\ ~doc'.raw.some) => log' = <<>>
      /\ log' # log => last' \in {"into_mut", "Document::from_str"}
    ]_vars

\* a converted Document has been edited, and despan has run once
C4_Witness ==
  /\ last = "set_trailing"
  /\ Len(log) = 1
  /\ doc.raw.some

\* C5: for a valid source text T, ImDocument::parse(T) and
\* ImDocument::from_str(T) succeed and raw() of the result is T; from_str
\* holds an owned copy.
C5_ParseKeepsRaw ==
  (last \in {"ImDocument::parse", "ImDocument::from_str"} /\ IsValid(src)) =>
    /\ ret.tag = "Ok"
    /\ ImDocument_raw(ret.value) = src
    /\ ImLive /\ ImDocument_raw(im) = src
    /\ last = "ImDocument::from_str" => ret.value.raw.mode = "owned"

\* a non-empty valid text with trailing text has been parsed by from_str
C5_Witness ==
  /\ last = "ImDocument::from_str"
  /\ ret.tag = "Ok"
  /\ Len(src) > 0
  /\ IsSpanned(ret.value.trailing)

\* C6: for a malformed source text each parse entry point returns one error
\* and no document, binds no document, and Document::from_str has not run
\* despan.
C6_MalformedGivesErrorOnly ==
  ~IsValid(src) =>
    /\ last \in {"ImDocument::parse", "ImDocument::from_str",
                  "Document::from_str"} =>
          /\ ret.tag = "Err"
          /\ ret.value = NoDoc
          /\ ret.err.kind = "TomlError"
    /\ last \in {"ImDocument::parse", "ImDocument::from_str"} => im = NoDoc
    /\ last = "Document::from_str" => (doc = NoDoc /\ log = <<>>)

\* Document::from_str has been given a malformed text
C6_Witness ==
  /\ last = "Document::from_str"
  /\ ~IsValid(src)
  /\ ret.tag = "Err"

\* C7: Document::from(R) has root exactly the table R, an empty trailing
\* span and no retained buffer.
C7_FromTable ==
  last = "Document::from" =>
    /\ doc.root.kind = "Table"
    /\ Document_as_table(doc).table = tbl
    /\ Document_iter(doc).keys = Table_iter(tbl)
    /\ Document_trailing(doc) = Explicit(<<>>)
    /\ doc.raw = [some |-> FALSE]

\* a Document has been built from a table that has entries
C7_Witness ==
  /\ last = "Document::from"
  /\ Len(tbl.entries) > 0

\* C8: a default ImDocument and a default Document have an empty root table
\* at offset 0 and an empty trailing span; the default Document rendered and
\* parsed back is again such a document.
C8_DefaultRoundtrip ==
  /\ last = "ImDocument::new" =>
        (im.root = EmptyRootAt0 /\ im.trailing = Explicit(<<>>))
  /\ last = "Document::new" =>
        (doc.root = EmptyRootAt0 /\ doc.trailing = Explicit(<<>>))
  /\ last = "default_roundtrip" =>
        /\ panic = NoPanic
        /\ ret.tag = "Ok"
        /\ ret.value.root = EmptyRootAt0
        /\ ret.value.trailing = Explicit(<<>>)
        /\ Document_default.root = EmptyRootAt0
        /\ Document_to_string(Document_default) = <<>>

\* the round trip test has run
C8_Witness ==
  /\ last = "default_roundtrip"
  /\ ret.tag = "Ok"

\* C9: no operation changes the retained buffer of an existing Document;
\* set_trailing leaves the root alone, writes through as_item_mut,
\* as_table_mut and deref_mut leave the trailing span alone, and into_mut()
\* retains exactly the text of the ImDocument.
C9_RawIsFrame ==
  [][ /\ doc # NoDoc => doc'.raw = doc.raw
      /\ (last' = "set_trailing") => doc'.root = doc.root
      /\ (last' \in {"as_item_mut", "as_table_mut"}) =>
            doc'.trailing = doc.trailing
      /\ (last' = "into_mut") => doc'.raw = Some(ImDocument_raw(im))
      /\ (last' \in {"Document::new", "Document::from"}) =>
            doc'.raw = [some |-> FALSE]
    ]_vars

\* the trailing span of a converted Document has been set
C9_Witness ==
  /\ last = "set_trailing"
  /\ doc.raw.some
  /\ Len(doc.raw.text) > 0
  /\ doc.trailing = Explicit(<<"\n">>)

\* C10: every Document is detached: none of its span texts is a byte range.
C10_EveryDocumentDetached ==
  doc # NoDoc => Detached(doc)

====
